---------------------------- MODULE Spec2Model ----------------------------
(***************************************************************************)
(* A model of the Hill-type muscle class of H_muscle.py.                   *)
(*                                                                         *)
(* The program computes over IEEE doubles; the model computes the same     *)
(* formulas in fixed point, every quantity an integer count of a unit:     *)
(*   lengths l_0, l_t, l_mt, l_m       1e-5 m          (LenScale per m)    *)
(*   normalised fibre length l_hat     1e-5            (LenScale per 1)    *)
(*   angles phi_0, sines, A, u, a, exp 1e-4            (Unit per 1)        *)
(*   force-length values f_am, f_pm    1e-6            (Micro per 1)       *)
(*   F_0                               N                                   *)
(*   forces F_A, F_P, F                mN              (Milli per N)       *)
(* Products are taken with MulDiv so that no intermediate value leaves the *)
(* 32-bit range.  The two outcomes of a float division by zero that the    *)
(* program can produce (nan, inf) are values of their own.                 *)
(***************************************************************************)
EXTENDS Integers, Sequences, FiniteSets

VARIABLES F_0, l_0, l_t, phi_0, A,   \* the five attributes of the instance
          op,                        \* the method called last ("__init__" at first)
          args,                      \* the arguments it was called with
          result,                    \* what it returned, or the error it raised
          printed,                   \* what it wrote to stdout (<<>> if nothing)
          f_a_cache, f_p_cache,      \* build-once variant: the curves it holds
          cached_result,             \* build-once variant: its result for the same call
          reused                     \* build-once variant: it served the call
                                     \* from a curve it already held

vars == <<F_0, l_0, l_t, phi_0, A, op, args, result, printed,
          f_a_cache, f_p_cache, cached_result, reused>>

params == <<F_0, l_0, l_t, phi_0, A>>

\* Python's None, as a returned value
None == [k |-> "none", v |-> 0]

---------------------------------------------------------------------------
(* Units *)
Unit     == 10^4
LenScale == 10^5
Micro    == 10^6
Milli    == 10^3

---------------------------------------------------------------------------
(* Fixed-point arithmetic *)

Abs(x) == IF x < 0 THEN -x ELSE x

\* a*b/d for d > 0, rounded towards zero, without forming a*b
MulDivNat(a, b, d) == (a \div d) * b + ((a % d) * b) \div d

MulDiv(a, b, d) ==
    IF (a < 0) = (b < 0) THEN MulDivNat(Abs(a), Abs(b), d)
                         ELSE -MulDivNat(Abs(a), Abs(b), d)

\* floor(sqrt(n)) for 0 <= n < 2^31, by bisection
RECURSIVE SqrtBetween(_, _, _)
SqrtBetween(n, lo, hi) ==
    IF lo >= hi THEN lo
    ELSE LET mid == (lo + hi + 1) \div 2
         IN  IF mid * mid <= n THEN SqrtBetween(n, mid, hi)
                               ELSE SqrtBetween(n, lo, mid - 1)

Sqrt(n) == SqrtBetween(n, 0, 46340)

\* the number of terms of the exponential and sine series that are summed
ExpTerms == 12

\* term k of the series of exp(x), from term k-1, summed up to ExpTerms
RECURSIVE ExpSum(_, _, _)
ExpSum(x, k, term) ==
    IF k > ExpTerms \/ term = 0 THEN 0
    ELSE term + ExpSum(x, k + 1, MulDiv(term, x, (k + 1) * Unit))

\* np.exp, in Unit
Exp(x) == ExpSum(x, 0, Unit)

\* np.sin, in Unit: x - x^3/3! + x^5/5! - x^7/7!
Sin(x) ==
    LET x2 == MulDiv(x, x, Unit)
        t3 == MulDiv(MulDiv(x, x2, Unit), 1, 6)
        t5 == MulDiv(MulDiv(t3, x2, Unit), 1, 20)
        t7 == MulDiv(MulDiv(t5, x2, Unit), 1, 42)
    IN  x - t3 + t5 - t7

---------------------------------------------------------------------------
(* Floating-point values: a number, or the nan / inf of a division by zero *)

Num(n) == [k |-> "num", v |-> n]
NaN    == [k |-> "nan", v |-> 0]
Inf    == [k |-> "inf", v |-> 0]

IsNum(x) == x.k = "num"

\* a returned value, or a raised exception
Ok(x)      == [kind |-> "ok", val |-> x]
ValueError == [kind |-> "ValueError", val |-> NaN]

\* x * n for a float x and a finite n
Scale(x, n, d) == IF IsNum(x) THEN Num(MulDiv(x.v, n, d)) ELSE NaN

\* x * y and x + y for floats that are numbers or nan
Times(x, y, d) == IF IsNum(x) /\ IsNum(y) THEN Num(MulDiv(x.v, y.v, d)) ELSE NaN
Plus(x, y)     == IF IsNum(x) /\ IsNum(y) THEN Num(x.v + y.v) ELSE NaN

---------------------------------------------------------------------------
(* The force-length curves: scipy.interpolate.interp1d(x, y, kind='cubic') *)

\* Breakpoints of the active curve: x in LenScale, y in Micro
Active_x == <<-500000, 0, 40100, 40200, 40350, 52725, 62875, 71875, 86125,
              104500, 121750, 143875, 161875, 162000, 162100, 220000, 500000>>
Active_y == <<0, 0, 0, 0, 0, 226667, 636667, 856667, 950000, 993333, 770000,
              246667, 0, 0, 0, 0, 0>>

\* Breakpoints of the passive curve
Passive_x == <<-500000, 99800, 99900, 100000, 110000, 120000, 130000, 140000,
               150000, 160000, 160100, 160200, 500000>>
Passive_y == <<0, 0, 0, 0, 35000, 120000, 260000, 550000, 1170000, 2000000,
               2000000, 2000000, 2000000>>

(***************************************************************************)
(* kind='cubic' fits the cubic spline through the breakpoints with         *)
(* not-a-knot end conditions.  With M[i] its second derivative at x[i] and *)
(* h[i] = x[i+1] - x[i], the spline on [x[i], x[i+1]] is, for              *)
(* s = (x - x[i]) / h[i],                                                  *)
(*   y[i](1-s) + y[i+1]s + p[i]((1-s)^3 - (1-s)) + q[i](s^3 - s)           *)
(* where p[i] = h[i]^2 M[i] / 6 and q[i] = h[i]^2 M[i+1] / 6.  M solves    *)
(*   h[i-1]M[i-1] + 2(h[i-1]+h[i])M[i] + h[i]M[i+1]                        *)
(*        = 6((y[i+1]-y[i])/h[i] - (y[i]-y[i-1])/h[i-1])    for 1 < i < n  *)
(*   (M[2]-M[1])/h[1] = (M[3]-M[2])/h[2]          and the same at the end. *)
(* The tables below are that solution for the two breakpoint tables,       *)
(* in Micro.                                                               *)
(***************************************************************************)
Active_p == <<-60807, 173, 0, -3, 77687, 46885, -37523, -63769, 20783, -60448,
              -55678, 25697, 5, -1, 213, 2790>>
Active_q == <<26887, 218, -2, 11, 69693, -47725, -25437, 12499, -68590, -33845,
              38824, 109828, -1, 0, 119, -7762>>

Passive_p == <<19284531, 0, 0, 13403, 7953, 4786, 27904, 33599, 167700, -49,
               10, 114090399>>
Passive_q == <<-9639854, 0, 1, 7953, 4786, 27904, 33599, 167700, -494401, 10,
               10, -228281555>>

\* The interpolant object: its breakpoints and its fitted pieces
interp1d(xs, ys, ps, qs) == [x |-> xs, y |-> ys, p |-> ps, q |-> qs]

\* The piece of f that x_new falls in: the last i with f.x[i] <= x_new
Piece(f, x_new) ==
    LET n == Len(f.x)
    IN  IF x_new >= f.x[n] THEN n - 1
        ELSE CHOOSE i \in 1..(n - 1) : f.x[i] <= x_new /\ x_new < f.x[i + 1]

\* dx / h in Unit, 0 <= dx <= h, by long division in two steps
Fraction(dx, h) ==
    ((dx * Milli) \div h) * 10 + (((dx * Milli) % h) * 10) \div h

\* s^3 - s, in Unit
Bump(s) == MulDiv(MulDiv(s, s, Unit), s, Unit) - s

\* The value of the spline at x_new, f.x[1] <= x_new <= f.x[Len(f.x)]
Evaluate(f, x_new) ==
    LET i == Piece(f, x_new)
        s == Fraction(x_new - f.x[i], f.x[i + 1] - f.x[i])
        r == Unit - s
    IN  MulDiv(f.y[i], r, Unit) + MulDiv(f.y[i + 1], s, Unit)
          + MulDiv(f.p[i], Bump(r), Unit) + MulDiv(f.q[i], Bump(s), Unit)

\* Mutant of Call: an interpolant that clamps x_new to the breakpoint range
\* instead of raising
Call_clamped(f, x_new) ==
    IF x_new.k = "nan" THEN Ok(NaN)
    ELSE IF x_new.k = "inf" THEN Ok(Num(Evaluate(f, f.x[Len(f.x)])))
    ELSE IF x_new.v < f.x[1] THEN Ok(Num(Evaluate(f, f.x[1])))
    ELSE IF x_new.v > f.x[Len(f.x)] THEN Ok(Num(Evaluate(f, f.x[Len(f.x)])))
    ELSE Ok(Num(Evaluate(f, x_new.v)))

\* f(x_new): interp1d.__call__ with the default bounds_error, which raises
\* ValueError for an x_new below or above the breakpoints; a nan compares
\* false with both ends and evaluates to nan
Call(f, x_new) ==
    IF x_new.k = "nan" THEN Ok(NaN)
    ELSE IF x_new.k = "inf" THEN ValueError
    ELSE IF x_new.v < f.x[1] \/ x_new.v > f.x[Len(f.x)] THEN ValueError
    ELSE Ok(Num(Evaluate(f, x_new.v)))

---------------------------------------------------------------------------
(* Constructor defaults (H_muscle.py lines 8-12), in the model's units *)
Default_F_0   == 3549
Default_l_0   == 5000
Default_l_t   == 25000
Default_phi_0 == 2000
Default_A     == -1000

(* Arguments the constructor and the methods are called with *)
F_0_Args   == {Default_F_0, 0}
l_0_Args   == {Default_l_0, 0, -Default_l_0}
l_t_Args   == {Default_l_t}
phi_0_Args == {-Default_phi_0, 0, Default_phi_0}
A_Args     == {Default_A, 0, 10000}

\* muscle-tendon lengths: l_t itself, the first of main(), and longer ones up
\* to and beyond the end of the curves' breakpoints
l_mt_Args  == {25000, 30000, 35000, 50000, 55000}

\* np.linspace(0, 1, n), in Unit
SweepPoints == 4
linspace(n) == [i \in 1..n |-> ((i - 1) * Unit) \div (n - 1)]
u_Sweep     == linspace(SweepPoints)
u_Args      == {u_Sweep[i] : i \in 1..SweepPoints}

---------------------------------------------------------------------------
(* The methods of Hill_type_muscle *)

\* a / b of two floats' numerators, in scale s: nan or inf when b = 0
Divide(a, s, b) ==
    IF b = 0 THEN (IF a = 0 THEN NaN ELSE Inf)
    ELSE IF b > 0 THEN Num(MulDiv(a, s, b))
    ELSE Num(MulDiv(-a, s, -b))

\* Mutant of cal_muscle_activation: the numerator without its "- 1"
cal_muscle_activation_no_offset(u) ==
    IF ~IsNum(u) THEN NaN
    ELSE Divide(Exp(MulDiv(A, u.v, Unit)), Unit, Exp(A) - Unit)

\* Mutant of cal_muscle_activation: the denominator without its "- 1"
cal_muscle_activation_exp_norm(u) ==
    IF ~IsNum(u) THEN NaN
    ELSE Divide(Exp(MulDiv(A, u.v, Unit)) - Unit, Unit, Exp(A))

cal_muscle_activation(u) ==
    IF ~IsNum(u) THEN NaN
    ELSE Divide(Exp(MulDiv(A, u.v, Unit)) - Unit, Unit, Exp(A) - Unit)

\* Mutant of cal_muscle_fiber_length: the sum of squares without np.sqrt
cal_muscle_fiber_length_no_sqrt(l_mt) ==
    LET w == MulDiv(l_0, Sin(phi_0), Unit)
    IN  w * w + (l_mt - l_t) * (l_mt - l_t)

cal_muscle_fiber_length(l_mt) ==
    LET w == MulDiv(l_0, Sin(phi_0), Unit)
    IN  Sqrt(w * w + (l_mt - l_t) * (l_mt - l_t))

cal_normalized_muscle_fiber_length(l_mt) ==
    Divide(cal_muscle_fiber_length(l_mt), LenScale, l_0)

\* Mutant of get_active_force_length_function: the builder fills breakpoint
\* arrays shared with the passive builder, so that what it returns depends
\* on the call made before
get_active_force_length_function_shared ==
    IF op \in {"get_passive_force_length_function",
               "get_passive_force_length_value",
               "mes_passive_muscle_force_value", "cal_passive_muscle_force"}
    THEN interp1d(Passive_x, Passive_y, Passive_p, Passive_q)
    ELSE interp1d(Active_x, Active_y, Active_p, Active_q)

get_active_force_length_function ==
    interp1d(Active_x, Active_y, Active_p, Active_q)

get_passive_force_length_function ==
    interp1d(Passive_x, Passive_y, Passive_p, Passive_q)

get_active_force_length_value(l_mt) ==
    Call(get_active_force_length_function,
         cal_normalized_muscle_fiber_length(l_mt))

get_passive_force_length_value(l_mt) ==
    Call(get_passive_force_length_function,
         cal_normalized_muscle_fiber_length(l_mt))

\* np.round(x, 4), in Unit
Round4(x) == IF IsNum(x) THEN Num((x.v + 50) \div 100) ELSE x

mes_active_muscle_force_value(l_mt) ==
    LET f_am == get_active_force_length_value(l_mt)
    IN  IF f_am.kind # "ok" THEN <<>>
        ELSE <<"Active Force-Length Value when l_mt = ", l_mt, "m is ",
               Round4(f_am.val)>>

mes_passive_muscle_force_value(l_mt) ==
    LET f_pm == get_passive_force_length_value(l_mt)
    IN  IF f_pm.kind # "ok" THEN <<>>
        ELSE <<"Passive Force-Length Value when l_mt = ", l_mt, "m is ",
               Round4(f_pm.val)>>

\* f_am * F_0 * a, in mN
cal_active_muscle_force(l_mt, u) ==
    LET a    == cal_muscle_activation(u)
        f_am == get_active_force_length_value(l_mt)
    IN  IF f_am.kind # "ok" THEN f_am
        ELSE Ok(Times(Scale(f_am.val, F_0, Milli), a, Unit))

cal_passive_muscle_force(l_mt) ==
    LET f_pm == get_passive_force_length_value(l_mt)
    IN  IF f_pm.kind # "ok" THEN f_pm
        ELSE Ok(Scale(f_pm.val, F_0, Milli))

cal_muscle_fiber_force(l_mt, u) ==
    LET a   == cal_muscle_activation(u)
        F_A == cal_active_muscle_force(l_mt, a)
        F_P == cal_passive_muscle_force(l_mt)
    IN  IF F_A.kind # "ok" THEN F_A
        ELSE IF F_P.kind # "ok" THEN F_P
        ELSE Ok(Plus(F_A.val, F_P.val))

\* cal_active_muscle_force with an array u, as main() calls it: numpy
\* applies the scalar formula to every element
cal_active_muscle_force_array(l_mt, us) ==
    LET f_am == get_active_force_length_value(l_mt)
    IN  IF f_am.kind # "ok" THEN f_am
        ELSE Ok([i \in 1..Len(us) |->
                   Times(Scale(f_am.val, F_0, Milli),
                         cal_muscle_activation(Num(us[i])), Unit)])

---------------------------------------------------------------------------
(* The build-once variant: the same methods, with each curve built on its  *)
(* first use and held by the instance from then on                         *)

f_a_held == IF f_a_cache = <<>> THEN get_active_force_length_function
                                ELSE f_a_cache[1]

f_p_held == IF f_p_cache = <<>> THEN get_passive_force_length_function
                                ELSE f_p_cache[1]

held_active_value(l_mt) ==
    Call(f_a_held, cal_normalized_muscle_fiber_length(l_mt))

held_passive_value(l_mt) ==
    Call(f_p_held, cal_normalized_muscle_fiber_length(l_mt))

held_active_force(l_mt, u) ==
    LET f_am == held_active_value(l_mt)
    IN  IF f_am.kind # "ok" THEN f_am
        ELSE Ok(Times(Scale(f_am.val, F_0, Milli),
                      cal_muscle_activation(u), Unit))

held_passive_force(l_mt) ==
    LET f_pm == held_passive_value(l_mt)
    IN  IF f_pm.kind # "ok" THEN f_pm
        ELSE Ok(Scale(f_pm.val, F_0, Milli))

held_fiber_force(l_mt, u) ==
    LET F_A == held_active_force(l_mt, cal_muscle_activation(u))
        F_P == held_passive_force(l_mt)
    IN  IF F_A.kind # "ok" THEN F_A
        ELSE IF F_P.kind # "ok" THEN F_P
        ELSE Ok(Plus(F_A.val, F_P.val))

held_active_force_array(l_mt, us) ==
    LET f_am == held_active_value(l_mt)
    IN  IF f_am.kind # "ok" THEN f_am
        ELSE Ok([i \in 1..Len(us) |->
                   Times(Scale(f_am.val, F_0, Milli),
                         cal_muscle_activation(Num(us[i])), Unit)])

\* The build-once variant serves the same call, when it is run beside the
\* reference (beside): it returns r, and holds from then on the curves the
\* call used (uses_a, uses_p)
Serve(beside, r, uses_a, uses_p) ==
    IF beside
    THEN /\ cached_result' = r
         /\ f_a_cache' = IF uses_a THEN <<f_a_held>> ELSE f_a_cache
         /\ f_p_cache' = IF uses_p THEN <<f_p_held>> ELSE f_p_cache
         /\ reused' = \/ uses_a /\ f_a_cache # <<>>
                      \/ uses_p /\ f_p_cache # <<>>
    ELSE UNCHANGED <<f_a_cache, f_p_cache, cached_result, reused>>

---------------------------------------------------------------------------
(* The state machine: an instance, and the calls made on it *)

Init ==
    /\ F_0 \in F_0_Args
    /\ l_0 \in l_0_Args
    /\ l_t \in l_t_Args
    /\ phi_0 \in phi_0_Args
    /\ A \in A_Args
    /\ op = "__init__"
    /\ args = <<F_0, l_0, l_t, phi_0, A>>
    /\ result = Ok(None)
    /\ printed = <<>>
    /\ f_a_cache = <<>>
    /\ f_p_cache = <<>>
    /\ cached_result = Ok(None)
    /\ reused = FALSE

\* A call of method o with arguments a that returns (or raises) r and
\* prints out; no method assigns an attribute
Invoke(o, a, r, out) ==
    /\ op' = o
    /\ args' = a
    /\ result' = r
    /\ printed' = out
    /\ UNCHANGED params

do_cal_muscle_activation(beside) ==
    \E u \in u_Args :
        /\ Invoke("cal_muscle_activation", <<u>>,
                  Ok(cal_muscle_activation(Num(u))), <<>>)
        /\ Serve(beside, Ok(cal_muscle_activation(Num(u))), FALSE, FALSE)

do_cal_muscle_fiber_length(beside) ==
    \E l_mt \in l_mt_Args :
        /\ Invoke("cal_muscle_fiber_length", <<l_mt>>,
                  Ok(Num(cal_muscle_fiber_length(l_mt))), <<>>)
        /\ Serve(beside, Ok(Num(cal_muscle_fiber_length(l_mt))), FALSE, FALSE)

do_cal_normalized_muscle_fiber_length(beside) ==
    \E l_mt \in l_mt_Args :
        /\ Invoke("cal_normalized_muscle_fiber_length", <<l_mt>>,
                  Ok(cal_normalized_muscle_fiber_length(l_mt)), <<>>)
        /\ Serve(beside, Ok(cal_normalized_muscle_fiber_length(l_mt)),
                 FALSE, FALSE)

do_get_active_force_length_function(beside) ==
    /\ Invoke("get_active_force_length_function", <<>>,
              Ok(get_active_force_length_function), <<>>)
    /\ Serve(beside, Ok(f_a_held), TRUE, FALSE)

do_get_passive_force_length_function(beside) ==
    /\ Invoke("get_passive_force_length_function", <<>>,
              Ok(get_passive_force_length_function), <<>>)
    /\ Serve(beside, Ok(f_p_held), FALSE, TRUE)

do_get_active_force_length_value(beside) ==
    \E l_mt \in l_mt_Args :
        /\ Invoke("get_active_force_length_value", <<l_mt>>,
                  get_active_force_length_value(l_mt), <<>>)
        /\ Serve(beside, held_active_value(l_mt), TRUE, FALSE)

do_get_passive_force_length_value(beside) ==
    \E l_mt \in l_mt_Args :
        /\ Invoke("get_passive_force_length_value", <<l_mt>>,
                  get_passive_force_length_value(l_mt), <<>>)
        /\ Serve(beside, held_passive_value(l_mt), FALSE, TRUE)

\* a method that returns nothing: None, unless the lookup r raised
Returned(r) == IF r.kind = "ok" THEN Ok(None) ELSE r

do_mes_active_muscle_force_value(beside) ==
    \E l_mt \in l_mt_Args :
        /\ Invoke("mes_active_muscle_force_value", <<l_mt>>,
                  Returned(get_active_force_length_value(l_mt)),
                  mes_active_muscle_force_value(l_mt))
        /\ Serve(beside, Returned(held_active_value(l_mt)), TRUE, FALSE)

do_mes_passive_muscle_force_value(beside) ==
    \E l_mt \in l_mt_Args :
        /\ Invoke("mes_passive_muscle_force_value", <<l_mt>>,
                  Returned(get_passive_force_length_value(l_mt)),
                  mes_passive_muscle_force_value(l_mt))
        /\ Serve(beside, Returned(held_passive_value(l_mt)), FALSE, TRUE)

do_cal_active_muscle_force(beside) ==
    \E l_mt \in l_mt_Args, u \in u_Args :
        /\ Invoke("cal_active_muscle_force", <<l_mt, u>>,
                  cal_active_muscle_force(l_mt, Num(u)), <<>>)
        /\ Serve(beside, held_active_force(l_mt, Num(u)), TRUE, FALSE)

do_cal_active_muscle_force_array(beside) ==
    \E l_mt \in l_mt_Args :
        /\ Invoke("cal_active_muscle_force_array", <<l_mt, u_Sweep>>,
                  cal_active_muscle_force_array(l_mt, u_Sweep), <<>>)
        /\ Serve(beside, held_active_force_array(l_mt, u_Sweep), TRUE, FALSE)

do_cal_passive_muscle_force(beside) ==
    \E l_mt \in l_mt_Args :
        /\ Invoke("cal_passive_muscle_force", <<l_mt>>,
                  cal_passive_muscle_force(l_mt), <<>>)
        /\ Serve(beside, held_passive_force(l_mt), FALSE, TRUE)

\* Mutant of do_cal_muscle_fiber_force: the method keeps its activation in
\* the attribute A
do_cal_muscle_fiber_force_storing(beside) ==
    \E l_mt \in l_mt_Args, u \in u_Args :
        /\ op' = "cal_muscle_fiber_force"
        /\ args' = <<l_mt, u>>
        /\ result' = cal_muscle_fiber_force(l_mt, Num(u))
        /\ printed' = <<>>
        /\ A' = cal_muscle_activation(Num(u)).v
        /\ UNCHANGED <<F_0, l_0, l_t, phi_0>>
        /\ Serve(beside, held_fiber_force(l_mt, Num(u)), TRUE,
                 held_active_value(l_mt).kind = "ok")

\* the passive curve is reached only if the active lookup did not raise
do_cal_muscle_fiber_force(beside) ==
    \E l_mt \in l_mt_Args, u \in u_Args :
        /\ Invoke("cal_muscle_fiber_force", <<l_mt, u>>,
                  cal_muscle_fiber_force(l_mt, Num(u)), <<>>)
        /\ Serve(beside, held_fiber_force(l_mt, Num(u)), TRUE,
                 held_active_value(l_mt).kind = "ok")

Next ==
    \/ do_cal_muscle_activation(FALSE)
    \/ do_cal_muscle_fiber_length(FALSE)
    \/ do_cal_normalized_muscle_fiber_length(FALSE)
    \/ do_get_active_force_length_function(FALSE)
    \/ do_get_passive_force_length_function(FALSE)
    \/ do_get_active_force_length_value(FALSE)
    \/ do_get_passive_force_length_value(FALSE)
    \/ do_mes_active_muscle_force_value(FALSE)
    \/ do_mes_passive_muscle_force_value(FALSE)
    \/ do_cal_active_muscle_force(FALSE)
    \/ do_cal_active_muscle_force_array(FALSE)
    \/ do_cal_passive_muscle_force(FALSE)
    \/ do_cal_muscle_fiber_force(FALSE)

Spec == Init /\ [][Next]_vars

\* The build-once variant run beside the reference, on the default instance
InitBuildOnce ==
    /\ Init
    /\ params = <<Default_F_0, Default_l_0, Default_l_t, Default_phi_0,
                  Default_A>>

NextBuildOnce ==
    \/ do_cal_muscle_activation(TRUE)
    \/ do_cal_muscle_fiber_length(TRUE)
    \/ do_cal_normalized_muscle_fiber_length(TRUE)
    \/ do_get_active_force_length_function(TRUE)
    \/ do_get_passive_force_length_function(TRUE)
    \/ do_get_active_force_length_value(TRUE)
    \/ do_get_passive_force_length_value(TRUE)
    \/ do_mes_active_muscle_force_value(TRUE)
    \/ do_mes_passive_muscle_force_value(TRUE)
    \/ do_cal_active_muscle_force(TRUE)
    \/ do_cal_active_muscle_force_array(TRUE)
    \/ do_cal_passive_muscle_force(TRUE)
    \/ do_cal_muscle_fiber_force(TRUE)

SpecBuildOnce == InitBuildOnce /\ [][NextBuildOnce]_vars

---------------------------------------------------------------------------
(* Properties *)

\* the normalised fibre length of the last call's l_mt
l_hat == cal_normalized_muscle_fiber_length(args[1])

\* l_hat is a number inside the breakpoint range [-5, 5]
InDomain == IsNum(l_hat) /\ -5 * LenScale <= l_hat.v /\ l_hat.v <= 5 * LenScale

\* l_hat is beyond the breakpoint range
OutOfDomain ==
    \/ l_hat.k = "inf"
    \/ IsNum(l_hat) /\ (l_hat.v < -5 * LenScale \/ l_hat.v > 5 * LenScale)

LookupOps == {"get_active_force_length_value", "get_passive_force_length_value"}

ForceOps == {"cal_active_muscle_force", "cal_passive_muscle_force",
             "cal_muscle_fiber_force"}

\* the parameters the constructor is meant to accept
ValidParameters == A # 0 /\ F_0 > 0 /\ l_0 > 0

\* C1: the total fibre force is the active force at the same excitation plus
\* the passive force (the activation nonlinearity applied once).
C1_TotalIsActivePlusPassive ==
    (op = "cal_muscle_fiber_force" /\ result.kind = "ok" /\ ValidParameters) =>
        result.val = Plus(cal_active_muscle_force(args[1], Num(args[2])).val,
                          cal_passive_muscle_force(args[1]).val)

\* C2: the two lookups, and the three forces through which their error
\* propagates, raise the out-of-domain error whenever the normalised fibre
\* length is outside [-5, 5] and return a value whenever it is inside.
C2_OutOfDomainRaises ==
    op \in LookupOps \cup ForceOps =>
        /\ OutOfDomain => result = ValueError
        /\ InDomain => result.kind = "ok"
        /\ (InDomain /\ op \in LookupOps) => IsNum(result.val)

C2_Witness ==
    /\ op \in ForceOps
    /\ OutOfDomain
    /\ IsNum(l_hat)
    /\ result = ValueError

\* C3: an instance holding invalid parameters (A = 0, F_0 <= 0 or l_0 <= 0)
\* is never evaluated to a returned value: the failure is explicit.
C3_InvalidParametersFail ==
    (op # "__init__" /\ ~ValidParameters) => result.kind # "ok"

\* C4: with A # 0 and the normalised fibre length inside the range, the
\* active force at zero excitation is 0.
C4_ZeroExcitationZeroForce ==
    (op = "cal_active_muscle_force" /\ args[2] = 0 /\ A # 0 /\ InDomain) =>
        result = Ok(Num(0))

C4_Witness ==
    /\ op = "cal_active_muscle_force" /\ args[2] = 0 /\ A # 0 /\ InDomain
    /\ F_0 # 0
    /\ get_active_force_length_value(args[1]).val.v > 0
    /\ result = Ok(Num(0))

\* C5: with A # 0 the activation of excitation 0 is 0 and the activation of
\* excitation 1 is 1.
C5_ActivationNormalised ==
    (op = "cal_muscle_activation" /\ A # 0) =>
        /\ args[1] = 0 => result = Ok(Num(0))
        /\ args[1] = Unit => result = Ok(Num(Unit))

C5_Witness ==
    /\ op = "cal_muscle_activation" /\ A > 0
    /\ args[1] = Unit
    /\ result = Ok(Num(Unit))

\* C6: with A < 0 (and F_0, l_0 positive), the active forces over an
\* increasing excitation sweep at a fixed l_mt inside the domain are
\* non-decreasing.
C6_SweepNonDecreasing ==
    (op = "cal_active_muscle_force_array" /\ A < 0 /\ ValidParameters
       /\ result.kind = "ok") =>
        \A i \in 1..(Len(result.val) - 1) :
            result.val[i].v <= result.val[i + 1].v

\* the pennation term l_0 * sin(phi_0) of the fibre length
PennationTerm == MulDiv(l_0, Sin(phi_0), Unit)

\* C7 (as stated): the fibre length is at least l_0 * sin(phi_0), and equals
\* it at l_mt = l_t, for every pennation angle (and every l_0 > 0).
C7_AtLeastPennationTerm ==
    (op = "cal_muscle_fiber_length" /\ l_0 > 0) =>
        /\ result.val.v >= PennationTerm
        /\ args[1] = l_t => result.val.v = PennationTerm

\* C7 (amended): the fibre length is at least |l_0 * sin(phi_0)|, and equals
\* it at l_mt = l_t.
C7_AtLeastAbsPennationTerm ==
    op = "cal_muscle_fiber_length" =>
        /\ result.val.v >= Abs(PennationTerm)
        /\ args[1] = l_t => result.val.v = Abs(PennationTerm)

C7_Witness ==
    /\ op = "cal_muscle_fiber_length"
    /\ phi_0 < 0 /\ PennationTerm < 0
    /\ args[1] = l_t
    /\ result.val.v = -PennationTerm

\* C8: the active curve is 0 on [-5, 0.4035] and [1.61875, 5]; the passive
\* curve is 0 on [-5, 1] and 2 on [1.6, 5].
C8_PlateausFlat ==
    /\ (op = "get_active_force_length_value" /\ InDomain /\ ValidParameters
          /\ (l_hat.v <= 40350 \/ l_hat.v >= 161875)) => result.val.v = 0
    /\ (op = "get_passive_force_length_value" /\ InDomain
          /\ ValidParameters) =>
          /\ l_hat.v <= 100000 => result.val.v = 0
          /\ l_hat.v >= 160000 => result.val.v = 2 * Micro

\* C9: no call, returning or raising, changes F_0, l_0, l_t, phi_0 or A.
C9_ParametersNeverChange == [][params' = params]_vars

C9_Witness ==
    /\ op = "cal_muscle_fiber_force"
    /\ result = ValueError
    /\ params = <<Default_F_0, Default_l_0, Default_l_t, Default_phi_0,
                  Default_A>>

===========================================================================
